---- MODULE Spec2Model ----
(***************************************************************************)
(* Forward scores of haloop: the three CTC engines of ha/ctc.py and the    *)
(* two transducer engines of ha/transducer.py.                             *)
(*                                                                         *)
(* Numbers.  The engines only add and multiply probabilities (CTC does so  *)
(* in log space: logaddexp is the sum, + is the product, -inf is zero).    *)
(* A lattice cell is therefore kept as the formal sum it denotes: a bag of *)
(* monomials, each monomial the bag of the input entries multiplied        *)
(* together (emissions[t, c] of sequence n, or joint_probs[t, u, k]).  Two *)
(* cells hold the same number for every input exactly when they hold the   *)
(* same bag, so equality of scores "within floating-point tolerance for    *)
(* all inputs" is equality of bags.                                        *)
(***************************************************************************)
EXTENDS Naturals, Integers, FiniteSets, Sequences, Bags, TLC

\* Bounds of the explored inputs.
MaxT == 4
MaxS == 2
MaxU == 4

\* Class 0 is the blank (ctc.py: blank = 0; transducer.py: joint_probs[..., 0]).
blank == 0
\* Two distinct labels are enough to tell a repeated label from a new one.
Labels == {1, 2}
\* Classes a transducer target may name: randint(0, 6) draws the blank too.
Classes == {0, 1}

VARIABLES
  T,               \* frames of the (padded) emission / transcription tensor
  N,               \* sequences in the CTC batch
  S,               \* (padded) length of each CTC target
  U,               \* rows of the prediction tensor (transducer)
  targets,         \* CTC: [0..N-1 -> [0..S-1 -> class]]; transducer: [0..L-1 -> class]
  input_lengths,   \* CTC: frames of each sequence
  target_lengths,  \* CTC: labels of each sequence
  fn,              \* the function being executed, or "done"
  n,               \* the sequence a single-sequence CTC engine is called with
  pc,              \* position inside fn: "begin" or "loop"
  t,               \* loop variable of the outer loop
  log_alpha,       \* the CTC lattice of the running call
  alpha,           \* the transducer lattice of the running call
  score1,          \* results of ctc_forward_score1 per sequence
  score2,          \* results of ctc_forward_score2 per sequence
  score3,          \* result of ctc_forward_score3 on the batch
  loss1,           \* result of transducer_forward_score1
  loss2            \* result of transducer_forward_score2

vars == <<T, N, S, U, targets, input_lengths, target_lengths, fn, n, pc, t,
          log_alpha, alpha, score1, score2, score3, loss1, loss2>>

-----------------------------------------------------------------------------
\* Formal sums.

\* The value of an unreachable cell: -inf in log space, 0 in probability space.
Zero == EmptyBag

\* The number 1 (new_ones, alpha[0, 0] = 1): the empty product, once.
One == SetToBag({EmptyBag})

\* logaddexp in log space, + in probability space.
logaddexp(a, b) == a (+) b

\* p times one input entry x (+ in log space, * in probability space).
Times(p, x) ==
  LET ext(m) == m (+) SetToBag({x})
  IN  [k \in {ext(m) : m \in DOMAIN p} |-> p[CHOOSE m \in DOMAIN p : ext(m) = k]]

\* + in probability space.
Plus(a, b) == a (+) b

\* p times the monomial m, c times over.
TimesMonomial(p, m, c) ==
  LET ext(k) == k (+) m
  IN  [k \in {ext(j) : j \in DOMAIN p} |-> c * p[CHOOSE j \in DOMAIN p : ext(j) = k]]

\* p * q in probability space.
RECURSIVE Mul(_, _)
Mul(p, q) ==
  IF DOMAIN q = {} THEN Zero
  ELSE LET m == CHOOSE k \in DOMAIN q : TRUE
           rest == [k \in DOMAIN q \ {m} |-> q[k]]
       IN  Plus(TimesMonomial(p, m, q[m]), Mul(p, rest))

\* Python's index rule for one dimension of size len: negative indices count
\* from the end.
PyIdx(i, len) == IF i < 0 THEN i + len ELSE i

\* A result of a call.
Pending == [kind |-> "pending"]
Returned(neg, m) == [kind |-> "returned", negated |-> neg, mass |-> m]
Raised(err, alloc) == [kind |-> "raised", error |-> err, allocated |-> alloc]
\* The call went on into code whose behaviour nothing at hand fixes.
Unspecified == [kind |-> "unspecified"]

Unallocated == <<>>

-----------------------------------------------------------------------------
\* CTC.

\* emissions[t, c] of sequence n, as an input entry.
Emission(nn, tt, c) == <<nn, tt, c>>

\* A B C -> _ A _ B _ C _
_t_a_r_g_e_t_s_(tg, len) ==
  [s \in 0..(2 * len) |-> IF s % 2 = 1 THEN tg[(s - 1) \div 2] ELSE blank]

\* ctc_forward_score1: emissions.new_full((T, S_), -inf) followed by
\* log_alpha[0, :2] = emissions[0, _t_a_r_g_e_t_s_[:2]]
Ctc1Lattice(nn, frames, xt) ==
  [tt \in 0..(frames - 1) |->
     [s \in DOMAIN xt |->
        IF tt = 0 /\ s < 2 THEN Times(One, Emission(nn, 0, xt[s])) ELSE Zero]]

\* ctc_forward_score1, one pass of the loop over s for row tt.
Ctc1Row(la, nn, xt, tt) ==
  LET S_ == Cardinality(DOMAIN xt)
      cell(s) ==
        LET self_loop == la[tt - 1][s]
            prev_symbol == la[tt - 1][s - 1]
            skip == la[tt - 1][PyIdx(s - 2, S_)]
            base_transitions == logaddexp(self_loop, prev_symbol)
            transitions_with_skip == logaddexp(base_transitions, skip)
            into_blank == IF xt[s] = blank THEN base_transitions
                                           ELSE transitions_with_skip
            transitions == IF xt[PyIdx(s - 2, S_)] = xt[s] THEN base_transitions
                                                           ELSE into_blank
        IN  Times(transitions, Emission(nn, tt, xt[s]))
  IN  [s \in DOMAIN xt |-> IF s >= 1 THEN cell(s) ELSE la[tt][s]]

\* ctc_forward_score1: return -log_alpha[T-1, -1].logaddexp(log_alpha[T-1, -2]);
\* with a single column the index -2 is out of range.
Ctc1Readout(row) ==
  LET S_ == Cardinality(DOMAIN row)
  IN  IF S_ < 2 THEN Raised("IndexError", TRUE)
      ELSE Returned(TRUE, logaddexp(row[PyIdx(-1, S_)], row[PyIdx(-2, S_)]))

\* Ctc2Lattice with row 0 initialised over its first three columns.
Ctc2LatticeThreeColumns(nn, frames, xt) ==
  [tt \in 0..(frames - 1) |->
     [s \in DOMAIN xt |->
        IF tt = 0 /\ s < 3 THEN Times(One, Emission(nn, 0, xt[s])) ELSE Zero]]

\* ctc_forward_score2: emissions.new_full((T, S_), -inf) followed by
\* log_alpha[0, :2] = emissions[0, _t_a_r_g_e_t_s_[:2]]
Ctc2Lattice(nn, frames, xt) ==
  [tt \in 0..(frames - 1) |->
     [s \in DOMAIN xt |->
        IF tt = 0 /\ s < 2 THEN Times(One, Emission(nn, 0, xt[s])) ELSE Zero]]

\* ctc_forward_score2: the row-1 write before the loop,
\* log_alpha[1, 1:2] = log_alpha[0, 0].logaddexp(log_alpha[0, 1]) + emissions[1, ...]
FirstSymbolAtRow1(la, nn, xt) ==
  [la EXCEPT ![1] = [@ EXCEPT ![1] =
      Times(logaddexp(la[0][0], la[0][1]), Emission(nn, 1, xt[1]))]]

\* Ctc2Row without the same_symbols select: a repeated label is skipped
\* into like a new one.
Ctc2RowSkippingRepeats(la, nn, xt, tt) ==
  LET cell(s) ==
        LET self_loop == la[tt - 1][s]
            prev_symbol == la[tt - 1][s - 1]
            skip == la[tt - 1][s - 2]
            blanks == xt[s] = blank
            transitions == IF blanks THEN logaddexp(self_loop, prev_symbol)
                           ELSE logaddexp(logaddexp(self_loop, prev_symbol), skip)
        IN  Times(transitions, Emission(nn, tt, xt[s]))
      self_loop_(s) == Times(la[tt - 1][s], Emission(nn, tt, xt[s]))
  IN  [s \in DOMAIN xt |->
         IF s >= 2 THEN cell(s)
         ELSE IF s = 1 /\ tt > 1 THEN self_loop_(s)
         ELSE la[tt][s]]

\* ctc_forward_score2, row tt from the shifted views of row tt-1
\* (self_loop = [2:], prev_symbol = [1:-1], skip = [:-2]); for t > 1 the
\* columns 1: are first written from their self loops alone.
Ctc2Row(la, nn, xt, tt) ==
  LET cell(s) ==
        LET self_loop == la[tt - 1][s]
            prev_symbol == la[tt - 1][s - 1]
            skip == la[tt - 1][s - 2]
            blanks == xt[s] = blank
            same_symbols == xt[s] = xt[s - 2]
            into_blank == IF blanks THEN logaddexp(self_loop, prev_symbol)
                          ELSE logaddexp(logaddexp(self_loop, prev_symbol), skip)
            transitions == IF same_symbols THEN logaddexp(self_loop, prev_symbol)
                                           ELSE into_blank
        IN  Times(transitions, Emission(nn, tt, xt[s]))
      self_loop_(s) == Times(la[tt - 1][s], Emission(nn, tt, xt[s]))
  IN  [s \in DOMAIN xt |->
         IF s >= 2 THEN cell(s)
         ELSE IF s = 1 /\ tt > 1 THEN self_loop_(s)
         ELSE la[tt][s]]

\* ctc_forward_score2: return -log_alpha[T-1, -1].logaddexp(log_alpha[T-1, -2])
Ctc2Readout(row) ==
  LET S_ == Cardinality(DOMAIN row)
  IN  IF S_ < 2 THEN Raised("IndexError", TRUE)
      ELSE Returned(TRUE, logaddexp(row[PyIdx(-1, S_)], row[PyIdx(-2, S_)]))

\* ctc_forward_score3: emissions.new_full((T, N, S_), -inf) followed by
\* log_alpha[0, :, :2] = emissions[0, :].gather(-1, _t_a_r_g_e_t_s_[:, :2])
InitialBatchLattice(frames, batch, xts) ==
  [tt \in 0..(frames - 1) |->
     [nn \in 0..(batch - 1) |->
        [s \in DOMAIN xts[nn] |->
           IF tt = 0 /\ s < 2 THEN Times(One, Emission(nn, 0, xts[nn][s])) ELSE Zero]]]

\* ctc_forward_score3: first_transitions and the write of log_alpha[1, :, 1].
FirstTransitions(la, xts) ==
  [la EXCEPT ![1] = [nn \in DOMAIN la[1] |-> [la[1][nn] EXCEPT ![1] =
      Times(logaddexp(la[0][nn][0], la[0][nn][1]), Emission(nn, 1, xts[nn][1]))]]]

\* Ctc3Row with a self loop on the leading blank: column 0 is carried on
\* from row to row.
Ctc3RowLeadingBlankLoop(la, xts, tt) ==
  LET cell(nn, s) ==
        LET self_loop == la[tt - 1][nn][s]
            prev_symbol == la[tt - 1][nn][s - 1]
            skip == la[tt - 1][nn][s - 2]
            blanks == xts[nn][s] = blank
            same_symbols == xts[nn][s] = xts[nn][s - 2]
            basic_transitions == logaddexp(self_loop, prev_symbol)
            into_blank == IF blanks THEN basic_transitions
                                    ELSE logaddexp(basic_transitions, skip)
            transitions == IF same_symbols THEN basic_transitions ELSE into_blank
        IN  Times(transitions, Emission(nn, tt, xts[nn][s]))
      self_loop_(nn, s) == Times(la[tt - 1][nn][s], Emission(nn, tt, xts[nn][s]))
  IN  [nn \in DOMAIN la[tt] |->
         [s \in DOMAIN xts[nn] |->
            IF s >= 2 THEN cell(nn, s)
            ELSE IF s = 1 /\ tt > 1 THEN self_loop_(nn, s)
            ELSE IF s = 0 THEN self_loop_(nn, s)
            ELSE la[tt][nn][s]]]

\* ctc_forward_score3, row tt of every sequence of the batch.
Ctc3Row(la, xts, tt) ==
  LET cell(nn, s) ==
        LET self_loop == la[tt - 1][nn][s]
            prev_symbol == la[tt - 1][nn][s - 1]
            skip == la[tt - 1][nn][s - 2]
            blanks == xts[nn][s] = blank
            same_symbols == xts[nn][s] = xts[nn][s - 2]
            basic_transitions == logaddexp(self_loop, prev_symbol)
            into_blank == IF blanks THEN basic_transitions
                                    ELSE logaddexp(basic_transitions, skip)
            transitions == IF same_symbols THEN basic_transitions ELSE into_blank
        IN  Times(transitions, Emission(nn, tt, xts[nn][s]))
      self_loop_(nn, s) == Times(la[tt - 1][nn][s], Emission(nn, tt, xts[nn][s]))
  IN  [nn \in DOMAIN la[tt] |->
         [s \in DOMAIN xts[nn] |->
            IF s >= 2 THEN cell(nn, s)
            ELSE IF s = 1 /\ tt > 1 THEN self_loop_(nn, s)
            ELSE la[tt][nn][s]]]

\* BatchReadout reading the padded corner, the last row and the last two
\* columns of the padded lattice, for every sequence.
BatchReadoutPaddedCorner(la, frames, batch, S_) ==
  Returned(TRUE, [nn \in 0..(batch - 1) |->
                    logaddexp(la[frames - 1][nn][S_ - 1], la[frames - 1][nn][S_ - 2])])

\* ctc_forward_score3: the rows T_last and the columns S_last, S_last - 1 of
\* each sequence.
BatchReadout(la, frames, batch, S_) ==
  LET T_last(nn) == input_lengths[nn] - 1
      S_last(nn) == 2 * target_lengths[nn] + 1 - 1
      inside(i, len) == PyIdx(i, len) \in 0..(len - 1)
      last_timestep(nn) == la[PyIdx(T_last(nn), frames)][nn]
      last_blank(nn) == last_timestep(nn)[PyIdx(S_last(nn), S_)]
      last_symbol(nn) == last_timestep(nn)[PyIdx(S_last(nn) - 1, S_)]
  IN  IF \E nn \in 0..(batch - 1) :
           \/ ~inside(T_last(nn), frames)
           \/ ~inside(S_last(nn), S_)
           \/ ~inside(S_last(nn) - 1, S_)
        THEN Raised("IndexError", TRUE)
        ELSE Returned(TRUE, [nn \in 0..(batch - 1) |->
                               logaddexp(last_blank(nn), last_symbol(nn))])

\* The arguments of a single-sequence call on sequence nn of the batch.
SeqTargets(nn) == [i \in 0..(target_lengths[nn] - 1) |-> targets[nn][i]]
SeqExpanded(nn) == _t_a_r_g_e_t_s_(SeqTargets(nn), target_lengths[nn])
\* The padded targets of sequence nn, expanded (ctc_forward_score3).
BatchExpanded == [nn \in 0..(N - 1) |-> _t_a_r_g_e_t_s_(targets[nn], S)]

-----------------------------------------------------------------------------
\* Transducer.

\* joint_probs[t, u, k], as an input entry.
Joint(tt, u, k) == <<tt, u, k>>

\* The number joint_probs[t, u, k].
JointProb(tt, u, k) == Times(One, Joint(tt, u, k))

Size(f) == Cardinality(DOMAIN f)

\* transducer_forward_score1: new_zeros((T, U)), alpha[0, 0] = 1 and the loop
\* over u at t = 0.
Tr1FirstRow(frames, rows, tg) ==
  LET row0[u \in 0..(rows - 1)] ==
        IF u = 0 THEN One
        ELSE LET prev_symbol_prob == Joint(0, u - 1, tg[u - 1])
             IN  Times(row0[u - 1], prev_symbol_prob)
  IN  [tt \in 0..(frames - 1) |->
         [u \in 0..(rows - 1) |-> IF tt = 0 THEN row0[u] ELSE Zero]]

\* Tr1Row taking the blank probability from frame tt instead of tt - 1.
Tr1RowBlankOfSameFrame(a, rows, tg, tt) ==
  LET row[u \in 0..(rows - 1)] ==
        IF u = 0
          THEN Times(a[tt - 1][0], Joint(tt, 0, blank))
          ELSE Plus(Times(a[tt - 1][u], Joint(tt, u, blank)),
                    Times(row[u - 1], Joint(tt, u - 1, tg[u - 1])))
  IN  row

\* transducer_forward_score1: row tt, u = 0 and then the loop over u.
Tr1Row(a, rows, tg, tt) ==
  LET row[u \in 0..(rows - 1)] ==
        IF u = 0
          THEN LET prev_blank_prob == Joint(tt - 1, 0, blank)
               IN  Times(a[tt - 1][0], prev_blank_prob)
          ELSE LET prev_blank_prob == Joint(tt - 1, u, blank)
                   prev_symbol_prob == Joint(tt, u - 1, tg[u - 1])
               IN  Plus(Times(a[tt - 1][u], prev_blank_prob),
                        Times(row[u - 1], prev_symbol_prob))
  IN  row

\* transducer_forward_score1: return alpha[T-1, U-1] * joint_probs[T-1, U-1, 0]
Tr1Result(a, frames, rows) ==
  Returned(FALSE, Times(a[frames - 1][rows - 1], Joint(frames - 1, rows - 1, blank)))

\* transducer_forward_score2: return alpha[T-1, U-1] * joint_probs[T-1, U-1, 0]
Tr2Result(a, frames, rows) ==
  Returned(FALSE, Times(a[frames - 1][rows - 1], Joint(frames - 1, rows - 1, blank)))

\* from_bot without the shift by one: entry u is gathered from row u, so the
\* last target is read and the first is not.
from_bot_unshifted(tg, tt) ==
  LET L == Size(tg)
      kept == IF L = 0 THEN 0 ELSE L - 1
  IN  [u \in 0..kept |-> IF u = 0 THEN One ELSE JointProb(tt, u, tg[u])]

\* transducer_forward_score2:
\*   from_bot = joint_probs[t, :].gather(-1, targets[:, None])[:, 0]
\*   from_bot = torch.cat((joint_probs.new_ones((1,)), from_bot[:-1]))
\* one entry per target, the last dropped, a 1 put in front.
from_bot(tg, tt) ==
  LET L == Size(tg)
      kept == IF L = 0 THEN 0 ELSE L - 1
  IN  [u \in 0..kept |-> IF u = 0 THEN One ELSE JointProb(tt, u - 1, tg[u - 1])]

\* torch.cumprod(x, dim=0)
cumprod(x) ==
  LET c[i \in DOMAIN x] == IF i = 0 THEN x[0] ELSE Mul(c[i - 1], x[i])
  IN  c

\* alpha[t, :] = value: a value of one entry is broadcast, any other length
\* than the row's is a shape error (RuntimeError).
Broadcastable(rows, value) == Size(value) = rows \/ Size(value) = 1

AssignRow(rows, value) ==
  IF Size(value) = rows THEN value ELSE [u \in 0..(rows - 1) |-> value[0]]

\* from_left with the blank probability of frame tt instead of tt - 1.
from_left_of_same_frame(a, rows, tt) ==
  [u \in 0..(rows - 1) |-> Times(a[tt - 1][u], Joint(tt, u, blank))]

\* transducer_forward_score2:
\*   from_left = alpha[t-1, :].clone() * joint_probs[t-1, :, 0]
from_left(a, rows, tt) ==
  [u \in 0..(rows - 1) |-> Times(a[tt - 1][u], Joint(tt - 1, u, blank))]

\* ha/scan.py is not among the sources.  scanrec(mult, add) is the affine
\* recurrence a[i] = a[i-1] * mult[i] + add[i] over two equal-length
\* sequences, started from 0 (so a[0] = add[0], mult[0] being 1).
scanrec(mult, add) ==
  LET a[i \in DOMAIN add] ==
        IF i = 0 THEN Plus(Mul(Zero, mult[0]), add[0])
        ELSE Plus(Mul(a[i - 1], mult[i]), add[i])
  IN  a

-----------------------------------------------------------------------------
\* The calls, in order: each sequence through the two single-sequence
\* engines, then the batch through ctc_forward_score3.

IdleTransducer == UNCHANGED <<alpha, loss1, loss2>>
IdleCTC == UNCHANGED <<log_alpha, n, score1, score2, score3>>

Inputs == <<T, N, S, U, targets, input_lengths, target_lengths>>

NextCall ==
  /\ pc' = "begin"
  /\ t' = 0
  /\ log_alpha' = Unallocated
  /\ IF fn = "ctc_forward_score1"
       THEN fn' = "ctc_forward_score2" /\ n' = n
       ELSE IF fn = "ctc_forward_score2"
         THEN IF n + 1 < N
                THEN fn' = "ctc_forward_score1" /\ n' = n + 1
                ELSE fn' = "ctc_forward_score3" /\ n' = 0
         ELSE fn' = "done" /\ n' = n

\* test_random: transducer_forward_score1, then transducer_forward_score2.
NextTransducerCall ==
  /\ pc' = "begin"
  /\ t' = 0
  /\ alpha' = Unallocated
  /\ fn' = IF fn = "transducer_forward_score1" THEN "transducer_forward_score2"
           ELSE "done"

Ctc1Begin ==
  /\ fn = "ctc_forward_score1" /\ pc = "begin"
  /\ log_alpha' = Ctc1Lattice(n, input_lengths[n], SeqExpanded(n))
  /\ pc' = "loop" /\ t' = 1
  /\ UNCHANGED <<fn, n, score1, score2, score3>>
  /\ UNCHANGED Inputs /\ IdleTransducer

Ctc1Loop ==
  /\ fn = "ctc_forward_score1" /\ pc = "loop" /\ t < input_lengths[n]
  /\ log_alpha' = [log_alpha EXCEPT ![t] = Ctc1Row(log_alpha, n, SeqExpanded(n), t)]
  /\ t' = t + 1
  /\ UNCHANGED <<fn, n, pc, score1, score2, score3>>
  /\ UNCHANGED Inputs /\ IdleTransducer

Ctc1Return ==
  /\ fn = "ctc_forward_score1" /\ pc = "loop" /\ t >= input_lengths[n]
  /\ score1' = [score1 EXCEPT ![n] = Ctc1Readout(log_alpha[input_lengths[n] - 1])]
  /\ NextCall
  /\ UNCHANGED <<score2, score3>>
  /\ UNCHANGED Inputs /\ IdleTransducer

Ctc2Begin ==
  /\ fn = "ctc_forward_score2" /\ pc = "begin"
  /\ LET xt == SeqExpanded(n)
         la == Ctc2Lattice(n, input_lengths[n], xt)
     IN  IF Cardinality(DOMAIN xt) < 2 \/ input_lengths[n] < 2
           THEN /\ score2' = [score2 EXCEPT ![n] = Raised("IndexError", TRUE)]
                /\ NextCall
           ELSE /\ log_alpha' = FirstSymbolAtRow1(la, n, xt)
                /\ pc' = "loop" /\ t' = 1
                /\ UNCHANGED <<fn, n, score2>>
  /\ UNCHANGED <<score1, score3>>
  /\ UNCHANGED Inputs /\ IdleTransducer

Ctc2Loop ==
  /\ fn = "ctc_forward_score2" /\ pc = "loop" /\ t < input_lengths[n]
  /\ log_alpha' = [log_alpha EXCEPT ![t] = Ctc2Row(log_alpha, n, SeqExpanded(n), t)]
  /\ t' = t + 1
  /\ UNCHANGED <<fn, n, pc, score1, score2, score3>>
  /\ UNCHANGED Inputs /\ IdleTransducer

Ctc2Return ==
  /\ fn = "ctc_forward_score2" /\ pc = "loop" /\ t >= input_lengths[n]
  /\ score2' = [score2 EXCEPT ![n] = Ctc2Readout(log_alpha[input_lengths[n] - 1])]
  /\ NextCall
  /\ UNCHANGED <<score1, score3>>
  /\ UNCHANGED Inputs /\ IdleTransducer

Ctc3Begin ==
  /\ fn = "ctc_forward_score3" /\ pc = "begin"
  /\ LET S_ == 2 * S + 1
         la == InitialBatchLattice(T, N, BatchExpanded)
     IN  IF S_ < 2 \/ T < 2
           THEN /\ score3' = Raised("IndexError", TRUE)
                /\ NextCall
           ELSE /\ log_alpha' = FirstTransitions(la, BatchExpanded)
                /\ pc' = "loop" /\ t' = 1
                /\ UNCHANGED <<fn, n, score3>>
  /\ UNCHANGED <<score1, score2>>
  /\ UNCHANGED Inputs /\ IdleTransducer

Ctc3Loop ==
  /\ fn = "ctc_forward_score3" /\ pc = "loop" /\ t < T
  /\ log_alpha' = [log_alpha EXCEPT ![t] = Ctc3Row(log_alpha, BatchExpanded, t)]
  /\ t' = t + 1
  /\ UNCHANGED <<fn, n, pc, score1, score2, score3>>
  /\ UNCHANGED Inputs /\ IdleTransducer

Ctc3Return ==
  /\ fn = "ctc_forward_score3" /\ pc = "loop" /\ t >= T
  /\ score3' = BatchReadout(log_alpha, T, N, 2 * S + 1)
  /\ NextCall
  /\ UNCHANGED <<score1, score2>>
  /\ UNCHANGED Inputs /\ IdleTransducer

\* What every CTC run starts from.
StartCTC ==
  /\ fn = "ctc_forward_score1" /\ n = 0 /\ pc = "begin" /\ t = 0
  /\ log_alpha = Unallocated
  /\ score1 = [i \in 0..(N - 1) |-> Pending]
  /\ score2 = [i \in 0..(N - 1) |-> Pending]
  /\ score3 = Pending
  /\ U = 0 /\ alpha = Unallocated /\ loss1 = Pending /\ loss2 = Pending

\* One sequence, any lengths (also those the engines' comments rule out),
\* passed to ctc_forward_score3 as a batch of one with emission_length = T and
\* target_length = S.
InitSingle ==
  /\ N = 1
  /\ T \in 1..MaxT
  /\ S \in 0..MaxS
  /\ targets \in [0..0 -> [0..(S - 1) -> Labels]]
  /\ input_lengths = [i \in 0..0 |-> T]
  /\ target_lengths = [i \in 0..0 |-> S]
  /\ StartCTC

Max(a, b) == IF a >= b THEN a ELSE b

\* A batch of two sequences as in ctc.py's __main__, each with
\* 1 <= target length < emission length, padded to the longest: the padded
\* target entries are any class.
InitBatch ==
  /\ N = 2
  /\ input_lengths \in [0..1 -> 2..MaxT]
  /\ target_lengths \in [0..1 -> 1..MaxS]
  /\ \A i \in 0..1 : target_lengths[i] < input_lengths[i]
  /\ T = Max(input_lengths[0], input_lengths[1])
  /\ S = Max(target_lengths[0], target_lengths[1])
  /\ targets \in [0..1 -> [0..(S - 1) -> Labels \cup {blank}]]
  /\ \A i \in 0..1 : \A j \in 0..(target_lengths[i] - 1) : targets[i][j] \in Labels
  /\ StartCTC

Tr1Begin ==
  /\ fn = "transducer_forward_score1" /\ pc = "begin"
  /\ alpha' = Tr1FirstRow(T, U, targets)
  /\ pc' = "loop" /\ t' = 1
  /\ UNCHANGED <<fn, loss1, loss2>>
  /\ UNCHANGED Inputs /\ IdleCTC

Tr1Loop ==
  /\ fn = "transducer_forward_score1" /\ pc = "loop" /\ t < T
  /\ alpha' = [alpha EXCEPT ![t] = Tr1Row(alpha, U, targets, t)]
  /\ t' = t + 1
  /\ UNCHANGED <<fn, pc, loss1, loss2>>
  /\ UNCHANGED Inputs /\ IdleCTC

Tr1Return ==
  /\ fn = "transducer_forward_score1" /\ pc = "loop" /\ t >= T
  /\ loss1' = Tr1Result(alpha, T, U)
  /\ NextTransducerCall
  /\ UNCHANGED loss2
  /\ UNCHANGED Inputs /\ IdleCTC

Tr2Begin ==
  /\ fn = "transducer_forward_score2" /\ pc = "begin"
  /\ LET value == cumprod(from_bot(targets, 0))
     IN  IF ~Broadcastable(U, value)
           THEN /\ loss2' = Raised("RuntimeError", TRUE)
                /\ NextTransducerCall
           ELSE /\ alpha' = [tt \in 0..(T - 1) |->
                               IF tt = 0 THEN AssignRow(U, value)
                               ELSE [u \in 0..(U - 1) |-> Zero]]
                /\ pc' = "loop" /\ t' = 1
                /\ UNCHANGED <<fn, loss2>>
  /\ UNCHANGED loss1
  /\ UNCHANGED Inputs /\ IdleCTC

Tr2Loop ==
  /\ fn = "transducer_forward_score2" /\ pc = "loop" /\ t < T
  /\ LET mult == from_bot(targets, t)
         add == from_left(alpha, U, t)
     IN  IF Size(mult) # Size(add)
           THEN /\ loss2' = Unspecified
                /\ NextTransducerCall
           ELSE /\ alpha' = [alpha EXCEPT ![t] = AssignRow(U, scanrec(mult, add))]
                /\ t' = t + 1
                /\ UNCHANGED <<fn, pc, loss2>>
  /\ UNCHANGED loss1
  /\ UNCHANGED Inputs /\ IdleCTC

Tr2Return ==
  /\ fn = "transducer_forward_score2" /\ pc = "loop" /\ t >= T
  /\ loss2' = Tr2Result(alpha, T, U)
  /\ NextTransducerCall
  /\ UNCHANGED loss1
  /\ UNCHANGED Inputs /\ IdleCTC

\* test_random's call shape: T frames, U prediction rows, targets of U
\* entries; also targets of U - 1 entries (no entry for the last row).
InitTransducer ==
  /\ T \in 1..MaxT
  /\ U \in 1..MaxU
  /\ \E L \in {U - 1, U} : targets \in [0..(L - 1) -> Classes]
  /\ N = 0 /\ S = 0 /\ input_lengths = <<>> /\ target_lengths = <<>>
  /\ fn = "transducer_forward_score1" /\ pc = "begin" /\ t = 0 /\ n = 0
  /\ log_alpha = Unallocated /\ alpha = Unallocated
  /\ score1 = <<>> /\ score2 = <<>> /\ score3 = Pending
  /\ loss1 = Pending /\ loss2 = Pending

Init == InitSingle \/ InitBatch \/ InitTransducer

Next ==
  \/ Ctc1Begin \/ Ctc1Loop \/ Ctc1Return
  \/ Ctc2Begin \/ Ctc2Loop \/ Ctc2Return
  \/ Ctc3Begin \/ Ctc3Loop \/ Ctc3Return
  \/ Tr1Begin \/ Tr1Loop \/ Tr1Return
  \/ Tr2Begin \/ Tr2Loop \/ Tr2Return

Spec == Init /\ [][Next]_vars

-----------------------------------------------------------------------------
\* What the claims speak about.

Done == fn = "done"
Finished(r) == r.kind # "pending"

\* The lengths a CTC call on sequence nn is made with.
CallT(nn) == input_lengths[nn]
CallS(nn) == target_lengths[nn]

\* The result of ctc_forward_score3 for sequence nn of the batch.
Score3Of(nn) ==
  IF score3.kind = "returned" THEN Returned(score3.negated, score3.mass[nn])
  ELSE score3

\* The results the three CTC engines have produced for sequence nn.
Results(nn) == {r \in {score1[nn], score2[nn], Score3Of(nn)} : Finished(r)}

\* Adjacent equal label pairs of the target of sequence nn.
Repeats(nn) ==
  Cardinality({i \in 0..(CallS(nn) - 2) : targets[nn][i] = targets[nn][i + 1]})

\* A frame labeling, read as CTC reads it: consecutive duplicates merged,
\* then blanks deleted.
RECURSIVE Collapse(_, _)
Collapse(lab, len) ==
  IF len = 0 THEN <<>>
  ELSE LET c == lab[len - 1]
           kept == c # blank /\ (len = 1 \/ lab[len - 2] # c)
       IN  IF kept THEN Append(Collapse(lab, len - 1), c) ELSE Collapse(lab, len - 1)

\* The product of the emissions along a frame labeling of sequence nn.
LabelingWeight(nn, lab, len) == SetToBag({Emission(nn, tt, lab[tt]) : tt \in 0..(len - 1)})

\* The brute-force total: every labeling of all frames that reads as the
\* target of sequence nn, once.
BruteForce(nn) ==
  LET frames == CallT(nn)
      want == [i \in 1..CallS(nn) |-> targets[nn][i - 1]]
      hits == {lab \in [0..(frames - 1) -> Labels \cup {blank}] :
                 Collapse(lab, frames) = want}
  IN  SetToBag({LabelingWeight(nn, lab, frames) : lab \in hits})

\* The monotonic lattice paths from (0, 0) to (tt, u), as the order of their
\* moves, and the product of a path's move weights.
LatticePaths(tt, u) ==
  {p \in [1..(tt + u) -> {"label", "blank"}] :
     Cardinality({i \in 1..(tt + u) : p[i] = "label"}) = u}

PathWeight(p, len, tg) ==
  LET labelsBefore(i) == Cardinality({j \in 1..(i - 1) : p[j] = "label"})
      move(i) ==
        LET uu == labelsBefore(i)
            ttt == (i - 1) - uu
        IN  IF p[i] = "label" THEN Joint(ttt, uu, tg[uu]) ELSE Joint(ttt, uu, blank)
  IN  SetToBag({move(i) : i \in 1..len})

\* The sum over all paths to (tt, u) of the product of the move weights.
PathSum(tt, u, tg) ==
  LET paths == LatticePaths(tt, u)
      w(p) == PathWeight(p, tt + u, tg)
  IN  [m \in {w(p) : p \in paths} |-> Cardinality({p \in paths : w(p) = m})]

-----------------------------------------------------------------------------
\* The claims.

\* C1: for 1 <= S < T the three CTC engines (the batched one with N = 1,
\* emission_length = T, target_length = S) return the same score.
C1_EnginesAgree ==
  (Done /\ N = 1 /\ 1 <= S /\ S < T) =>
     /\ score1[0].kind = "returned" /\ score2[0].kind = "returned"
     /\ score3.kind = "returned"
     /\ score1[0] = score2[0]
     /\ score2[0] = Score3Of(0)

\* C2: given targets of U entries, the two transducer engines return the same
\* score, and every row the scan engine writes satisfies
\* alpha[t,u] = alpha[t,u-1] * mult[u] + add[u] with mult[0] = 1,
\* mult[u] = joint[t,u-1,target[u-1]], add[u] = alpha[t-1,u] * joint[t-1,u,blank].
C2_TransducerEnginesAgree ==
  (N = 0 /\ Size(targets) = U) =>
     /\ Done => /\ loss1.kind = "returned" /\ loss2.kind = "returned"
                /\ loss1 = loss2
     /\ (fn = "transducer_forward_score2" /\ pc = "loop") =>
          \A tt \in 1..(t - 1) : \A u \in 0..(U - 1) :
             LET mult == IF u = 0 THEN One ELSE JointProb(tt, u - 1, targets[u - 1])
                 add == Times(alpha[tt - 1][u], Joint(tt - 1, u, blank))
                 left == IF u = 0 THEN Zero ELSE alpha[tt][u - 1]
             IN  alpha[tt][u] = Plus(Mul(left, mult), add)

C2_Witness ==
  /\ Done /\ N = 0 /\ Size(targets) = U /\ T >= 2 /\ U >= 3
  /\ loss2.kind = "returned" /\ loss1 = loss2
  /\ Cardinality(DOMAIN loss2.mass) >= 3

\* C3: in a batch of two sequences padded to common T and S, the batched
\* score of each sequence is the score ctc_forward_score2 returns for that
\* sequence's own frames and labels alone.
C3_BatchEqualsIsolated ==
  (Done /\ N >= 2) =>
     /\ score3.kind = "returned"
     /\ \A nn \in 0..(N - 1) :
          score2[nn].kind = "returned" /\ Score3Of(nn) = score2[nn]

C3_Witness ==
  /\ Done /\ N = 2 /\ score3.kind = "returned"
  /\ target_lengths[0] < S /\ input_lengths[0] < T
  /\ targets[0][S - 1] # blank
  /\ score3.mass[0] # Zero /\ score3.mass[0] = score2[0].mass
  /\ score3.mass[0] # score3.mass[1]

\* C4: for 1 <= S < T the score of ctc_forward_score1 is the brute-force
\* total over the frame labelings that read as the target.
C4_Score1IsBruteForce ==
  \A nn \in 0..(N - 1) :
     (score1[nn].kind = "returned" /\ 1 <= CallS(nn) /\ CallS(nn) < CallT(nn)) =>
        score1[nn].mass = BruteForce(nn)

\* C5: both transducer engines return the negated value of
\* alpha[T-1, U-1] * joint[T-1, U-1, blank].
C5_TransducerNegated ==
  (N = 0 /\ Size(targets) = U) =>
     \A r \in {loss1, loss2} :
        r.kind = "returned" =>
           /\ r.mass = Times(PathSum(T - 1, U - 1, targets), Joint(T - 1, U - 1, blank))
           /\ r.negated

\* C6: a CTC call with S >= T or S = 0 fails at entry, before the lattice is
\* allocated, and never returns a score.
C6_FailFast ==
  \A nn \in 0..(N - 1) :
     (CallS(nn) >= CallT(nn) \/ CallS(nn) = 0) =>
        \A r \in Results(nn) : r.kind = "raised" /\ ~r.allocated

\* C7 as stated: a CTC call with 2S+1 > T is rejected or returns zero
\* probability.
C7_TightTargetsScoreZero ==
  \A nn \in 0..(N - 1) :
     (2 * CallS(nn) + 1 > CallT(nn)) =>
        \A r \in Results(nn) : r.kind = "raised" \/ r.mass = Zero

\* C7 as amended: a CTC call whose target needs more frames than there are
\* (S plus the adjacent equal label pairs exceeds T) is rejected or returns
\* zero probability.
C7_TooFewFramesScoreZero ==
  \A nn \in 0..(N - 1) :
     (CallT(nn) < CallS(nn) + Repeats(nn)) =>
        \A r \in Results(nn) : r.kind = "raised" \/ r.mass = Zero

C7_Witness ==
  /\ Done /\ N = 1 /\ T = 2 /\ S = 2 /\ targets[0][0] = targets[0][1]
  /\ score1[0] = Returned(TRUE, Zero)
  /\ score2[0] = Returned(TRUE, Zero)
  /\ Score3Of(0) = Returned(TRUE, Zero)

\* C8: with a non-empty target and no valid alignment (T < S plus the adjacent
\* equal label pairs) every CTC engine returns the degenerate score as an
\* ordinary result.
C8_DegenerateScoreReturned ==
  \A nn \in 0..(N - 1) :
     (CallS(nn) >= 1 /\ CallT(nn) < CallS(nn) + Repeats(nn)) =>
        \A r \in Results(nn) : r.kind = "returned" /\ r.mass = Zero

\* C9 as stated: given U-1 targets (U >= 2) both transducer engines complete
\* and return the same score.
C9_ShortTargetsAccepted ==
  (Done /\ N = 0 /\ U >= 2 /\ Size(targets) = U - 1) =>
     /\ loss1.kind = "returned" /\ loss2.kind = "returned"
     /\ loss1 = loss2

\* C9 as amended: given U targets both transducer engines complete and return
\* the lattice score of target[0..U-2], whatever target[U-1] is; given U-1
\* targets transducer_forward_score1 returns that score too.
C9_LastTargetUnread ==
  (N = 0) =>
     LET read == [u \in 0..(U - 2) |-> targets[u]]
         want == Returned(FALSE, Times(PathSum(T - 1, U - 1, read),
                                       Joint(T - 1, U - 1, blank)))
     IN  /\ Finished(loss1) => loss1 = want
         /\ (Finished(loss2) /\ Size(targets) = U) => loss2 = want

C9_Witness ==
  /\ Done /\ N = 0 /\ T >= 2 /\ U >= 2 /\ Size(targets) = U
  /\ targets[U - 1] # targets[U - 2]
  /\ loss1.kind = "returned" /\ loss2 = loss1

\* C10: every cell of a row transducer_forward_score1 has written is the sum,
\* over the monotonic paths from (0,0) to the cell, of the product of the
\* path's move weights.
C10_AlphaIsPathSum ==
  (fn = "transducer_forward_score1" /\ pc = "loop") =>
     \A tt \in 0..(t - 1) : \A u \in 0..(U - 1) :
        alpha[tt][u] = PathSum(tt, u, targets)

C10_Witness ==
  /\ fn = "transducer_forward_score1" /\ pc = "loop" /\ t = T
  /\ T >= 2 /\ U >= 2
  /\ alpha[0][0] = One
  /\ Cardinality(DOMAIN alpha[T - 1][U - 1]) >= 2

\* The CTC call in progress has allocated its lattice; rows 0..t-1 are written.
InCtcLoop ==
  /\ fn \in {"ctc_forward_score1", "ctc_forward_score2", "ctc_forward_score3"}
  /\ pc = "loop"

\* The sequences the call in progress works on, the lattice it keeps for
\* sequence nn and the expanded target that lattice's columns stand for.
RunningSeqs == IF fn = "ctc_forward_score3" THEN 0..(N - 1) ELSE {n}

LatticeOf(nn) ==
  IF fn = "ctc_forward_score3" THEN [tt \in DOMAIN log_alpha |-> log_alpha[tt][nn]]
  ELSE log_alpha

ExpandedOf(nn) ==
  IF fn = "ctc_forward_score3" THEN BatchExpanded[nn] ELSE SeqExpanded(nn)

\* C11: in ctc_forward_score1 column 1 has no skip term: every written
\* alpha[t, 1], t >= 1, is made of alpha[t-1, 1], alpha[t-1, 0] and the
\* emission at t alone, and of no other column of row t-1.
C11_Column1HasNoSkip ==
  (fn = "ctc_forward_score1" /\ pc = "loop" /\ CallS(n) >= 1) =>
     \A tt \in 1..(t - 1) :
        log_alpha[tt][1] =
           Times(logaddexp(log_alpha[tt - 1][1], log_alpha[tt - 1][0]),
                 Emission(n, tt, SeqExpanded(n)[1]))

\* C12: in every CTC engine every lattice cell alpha[t, s] with s > 2t+1
\* holds the unreachable value, in every row written and in the rows still
\* to be written; in row 0 columns 0 and 1, and only they, are finite.
C12_ColumnsBeyondFrontierUnreachable ==
  InCtcLoop =>
     \A nn \in RunningSeqs :
        LET la == LatticeOf(nn)
        IN  /\ \A tt \in DOMAIN la : \A s \in DOMAIN la[tt] :
                 s > 2 * tt + 1 => la[tt][s] = Zero
            /\ \A s \in DOMAIN la[0] : (la[0][s] # Zero) <=> (s < 2)

C12_Witness ==
  /\ fn = "ctc_forward_score2" /\ pc = "loop" /\ t = 2 /\ CallS(n) = 2
  /\ log_alpha[0][1] # Zero /\ log_alpha[0][2] = Zero
  /\ log_alpha[1][3] # Zero /\ log_alpha[1][4] = Zero

\* An alignment weight that begins with two blank frames of sequence nn.
TwoLeadingBlanks(nn, m) ==
  BagIn(Emission(nn, 0, blank), m) /\ BagIn(Emission(nn, 1, blank), m)

\* C13: in the three CTC engines column 0 of the lattice is finite in row 0
\* only: alpha[t, 0] is the unreachable value for every t >= 1, and no
\* alignment beginning with two blank frames is part of any lattice cell or
\* of any returned score.
C13_LeadingBlankHasNoSelfLoop ==
  /\ InCtcLoop =>
       \A nn \in RunningSeqs :
          LET la == LatticeOf(nn)
          IN  /\ la[0][0] # Zero
              /\ \A tt \in DOMAIN la \ {0} : la[tt][0] = Zero
              /\ \A tt \in DOMAIN la : \A s \in DOMAIN la[tt] :
                    \A m \in BagToSet(la[tt][s]) : ~TwoLeadingBlanks(nn, m)
  /\ \A nn \in 0..(N - 1) : \A r \in Results(nn) :
        r.kind = "returned" =>
           \A m \in BagToSet(r.mass) : ~TwoLeadingBlanks(nn, m)

C13_Witness ==
  /\ fn = "ctc_forward_score3" /\ pc = "loop" /\ t = T /\ T >= 3
  /\ \A nn \in 0..(N - 1) :
        /\ log_alpha[T - 1][nn][0] = Zero
        /\ log_alpha[T - 1][nn][1] # Zero
        /\ log_alpha[T - 1][nn][2] # Zero
  /\ score1[0].kind = "returned" /\ score1[0].mass # Zero
  /\ score2[0].kind = "returned" /\ score2[0].mass # Zero

====
